---- MODULE Spec2Model ----
(***************************************************************************)
(* The concurrent discovery-and-fetch engine of ds_store_dump              *)
(* (src/ds_store_dump/DSStoreDumper.py): DSStoreDumper.run, the pool of    *)
(* DSStoreDumper.worker coroutines, the asyncio.Queue they share, the      *)
(* seen_urls set, the output directory and the remote site.                *)
(*                                                                         *)
(* Strings are sequences of tokens: "http", "://", "h", "/", "d", "f",     *)
(* ".txt", ... so that endswith, split, urljoin and unquote are computed   *)
(* on the text and not assumed.  The workers are asyncio tasks of one      *)
(* event loop: a step of the model is the code a task runs between two     *)
(* suspension points (await queue.get(), the GET, the chunk iteration).    *)
(***************************************************************************)
EXTENDS Integers, Sequences, FiniteSets, TLC

\* ------------------------------------------------------------------ bounds
\* size of the worker pool (num_workers)
NumWorkers == 2
Workers == 1..NumWorkers

\* longest address, in tokens, handed to the normalizer on its own
MaxAddrLen == 3

\* ------------------------------------------------------- strings as tokens
None == <<>>
MetaName == <<".DS_Store">>

\* the raw seed lists handed to run
SeedLists ==
    { <<>>,
      << <<"h">> >>,
      << <<"h">>, <<"h">> >>,
      << <<"h">>, <<"https", "://", "h">> >>,
      << <<"http", "://", "h", "/", "d", "/", ".DS_Store">> >> }

\* the address strings the normalizer is applied to on its own: with and
\* without a scheme, with a scheme urllib does not join on, with and without
\* the metadata filename, well-formed or not
AddressTokens == {"http", "foo", "://", "h", "/", ".DS_Store"}
Addresses == UNION { [1..n -> AddressTokens] : n \in 0..MaxAddrLen }

EndsWith(s, suf) ==
    /\ Len(s) >= Len(suf)
    /\ SubSeq(s, Len(s) - Len(suf) + 1, Len(s)) = suf

Positions(s, tok) == { i \in 1..Len(s) : s[i] = tok }

Max(S) == CHOOSE x \in S : \A y \in S : y <= x
Min(S) == CHOOSE x \in S : \A y \in S : x <= y

\* index of the last "/" of s, 0 when there is none
LastSlash(s) == IF Positions(s, "/") = {} THEN 0 ELSE Max(Positions(s, "/"))

\* the text of a token sequence with the separator "://" spelled out, and
\* the token sequence of a text
RECURSIVE Chars(_)
Chars(s) ==
    IF s = <<>> THEN <<>>
    ELSE (IF Head(s) = "://" THEN <<":", "/", "/">> ELSE << Head(s) >>) \o Chars(Tail(s))

RECURSIVE Pack(_)
Pack(c) ==
    IF c = <<>> THEN <<>>
    ELSE IF Len(c) >= 3 /\ SubSeq(c, 1, 3) = <<":", "/", "/">>
    THEN <<"://">> \o Pack(SubSeq(c, 4, Len(c)))
    ELSE << Head(c) >> \o Pack(Tail(c))

\* str.find for one token: its first position in s, 0 when there is none
Find(s, tok) == IF Positions(s, tok) = {} THEN 0 ELSE Min(Positions(s, tok))

\* str.split('/') and '/'.join
RECURSIVE Split(_)
RECURSIVE SplitAt(_, _)
Split(c) == SplitAt(c, Find(c, "/"))

SplitAt(c, i) ==
    IF i = 0 THEN << c >>
    ELSE << SubSeq(c, 1, i - 1) >> \o Split(SubSeq(c, i + 1, Len(c)))

RECURSIVE Join(_)
Join(segs) ==
    IF segs = <<>> THEN <<>>
    ELSE IF Len(segs) = 1 THEN segs[1]
    ELSE segs[1] \o <<"/">> \o Join(Tail(segs))

\* the tokens that begin with a letter, and the tokens made of the characters
\* a scheme may have (letters, digits, "+", "-", ".")
LetterTokens == {"http", "https", "foo", "h", "d", "f", "c", "i"}
SchemeTokens == LetterTokens \cup {".txt", ".png", ".config", ".."}

\* urllib.parse.uses_relative and uses_netloc, as far as the tokens can spell
\* their members: no scheme, http, https
UsesRelative == { <<>>, <<"http">>, <<"https">> }
UsesNetloc == { <<>>, <<"http">>, <<"https">> }

SplitResult(scheme, netloc, path) ==
    [scheme |-> scheme, netloc |-> netloc, path |-> path]

\* urlsplit, the netloc: the text after a leading "//", up to the next "/"
\* at position stop of that text
NetlocUpTo(scheme, after, stop) ==
    IF stop = 0 THEN SplitResult(scheme, after, <<>>)
    ELSE SplitResult(scheme, SubSeq(after, 1, stop - 1), SubSeq(after, stop, Len(after)))

\* urlsplit, after the scheme
SplitNetloc(scheme, rest) ==
    IF Len(rest) >= 2 /\ rest[1] = "/" /\ rest[2] = "/"
    THEN NetlocUpTo(scheme, SubSeq(rest, 3, Len(rest)),
                    Find(SubSeq(rest, 3, Len(rest)), "/"))
    ELSE SplitResult(scheme, <<>>, rest)

\* urlsplit, the scheme: the text before the first ":", at position colon, if
\* that text begins with a letter and is made of scheme characters
SplitScheme(c, colon) ==
    IF /\ colon > 1
       /\ c[1] \in LetterTokens
       /\ \A i \in 1..(colon - 1) : c[i] \in SchemeTokens
    THEN SplitNetloc(SubSeq(c, 1, colon - 1), SubSeq(c, colon + 1, Len(c)))
    ELSE SplitNetloc(<<>>, c)

\* urllib.parse.urlsplit on a text without "?" and "#"
urlsplit(c) == SplitScheme(c, Find(c, ":"))

\* urlunsplit: "/" before a path that does not begin with one
Rooted(path) == IF path # <<>> /\ path[1] # "/" THEN <<"/">> \o path ELSE path

\* urlunsplit: "//" and the netloc before the path
WithNetloc(scheme, netloc, path) ==
    IF \/ netloc # <<>>
       \/ /\ scheme # <<>>
          /\ scheme \in UsesNetloc
          /\ ~(Len(path) >= 2 /\ path[1] = "/" /\ path[2] = "/")
    THEN <<"/", "/">> \o netloc \o Rooted(path)
    ELSE path

\* urllib.parse.urlunsplit without query and fragment
urlunsplit(scheme, netloc, path) ==
    IF scheme # <<>> THEN scheme \o <<":">> \o WithNetloc(scheme, netloc, path)
    ELSE WithNetloc(scheme, netloc, path)

NonEmpty(seg) == seg # <<>>

\* urljoin: the segments of the base path without the last one, unless that
\* one is empty
BaseParts(parts) ==
    IF parts[Len(parts)] # <<>> THEN SubSeq(parts, 1, Len(parts) - 1) ELSE parts

\* urljoin: `segments[1:-1] = filter(None, segments[1:-1])`
DropEmptyInner(joined) ==
    IF Len(joined) <= 2 THEN joined
    ELSE << joined[1] >>
         \o SelectSeq(SubSeq(joined, 2, Len(joined) - 1), NonEmpty)
         \o << joined[Len(joined)] >>

\* the loop of urljoin over the path segments: ".." removes the segment
\* before it if there is one, "." is dropped
RECURSIVE ResolveDots(_, _)
ResolveDots(segs, acc) ==
    IF segs = <<>> THEN acc
    ELSE IF Head(segs) = <<"..">>
    THEN ResolveDots(Tail(segs), IF acc = <<>> THEN acc ELSE SubSeq(acc, 1, Len(acc) - 1))
    ELSE IF Head(segs) = <<".">> THEN ResolveDots(Tail(segs), acc)
    ELSE ResolveDots(Tail(segs), Append(acc, Head(segs)))

\* urljoin: the resolved segments, with an empty one after a last ".." or "."
ResolvedPath(segments) ==
    IF segments[Len(segments)] \in { <<".">>, <<"..">> }
    THEN Append(ResolveDots(segments, <<>>), <<>>)
    ELSE ResolveDots(segments, <<>>)

\* urljoin: `'/'.join(resolved_path) or '/'`
PathOrRoot(path) == IF path = <<>> THEN <<"/">> ELSE path

\* urljoin, once the base is split: a base whose scheme is not in
\* uses_relative yields the reference itself; otherwise the reference
\* replaces the last segment of the base path, empty inner segments are
\* dropped and dots resolved
JoinOnBase(base, r) ==
    IF base.scheme \notin UsesRelative THEN r
    ELSE urlunsplit(base.scheme, base.netloc,
                    PathOrRoot(Join(ResolvedPath(
                        DropEmptyInner(BaseParts(Split(base.path)) \o Split(r))))))

\* urllib.parse.urljoin on texts, for a reference that is a relative path (a
\* name or "..")
urljoinText(b, r) ==
    IF b = <<>> THEN r
    ELSE IF r = <<>> THEN b
    ELSE JoinOnBase(urlsplit(b), r)

\* urllib.parse.urljoin(base, ref)
urljoin(base, ref) == Pack(urljoinText(Chars(base), Chars(ref)))

\* `'://' in url`
HasSeparator(c) == \E i \in 1..(Len(c) - 2) : SubSeq(c, i, i + 2) = <<":", "/", "/">>

\* lines 23-24
WithScheme(c) == IF HasSeparator(c) THEN c ELSE <<"http", ":", "/", "/">> \o c

\* lines 26-27
WithSlash(u) == IF EndsWith(u, <<"/">>) THEN u ELSE Append(u, "/")

\* lines 25-28
WithMetaName(u) ==
    IF EndsWith(u, <<"/", ".DS_Store">>) THEN u ELSE urljoinText(WithSlash(u), MetaName)

\* normalize_ds_store_url
normalize_ds_store_url(url) == Pack(WithMetaName(WithScheme(Chars(url))))

\* urllib.parse.unquote on one token
unquote(tok) == IF tok = "%64" THEN "d" ELSE tok

\* url.split('://')[1]: the text between the first and the second "://"
AfterScheme(url) ==
    LET ps == Positions(url, "://")
        a == Min(ps)
        rest == ps \ {a}
        b == IF rest = {} THEN Len(url) + 1 ELSE Min(rest)
    IN SubSeq(url, a + 1, b - 1)

\* downloaded = self.output_directory / unquote(url.split('://')[1])
LocalPath(url) ==
    LET t == AfterScheme(url)
    IN <<"output", "/">> \o [i \in 1..Len(t) |-> unquote(t[i])]

\* downloaded.name
PathName(p) == SubSeq(p, LastSlash(p) + 1, Len(p))

\* the suffixes among the tokens that DOWNLOAD_RE allows (".config" has six
\* letters) and those EXTENSION_RE takes for an extension (one to four
\* letters)
DownloadExt == {".txt", ".config"}
ExtensionLike == {".txt", ".png"}

\* DOWNLOAD_RE.fullmatch(filename)
DOWNLOAD_RE(fn) == fn = MetaName \/ (Len(fn) >= 1 /\ fn[Len(fn)] \in DownloadExt)

\* EXTENSION_RE.search(filename)
EXTENSION_RE(fn) == Len(fn) >= 1 /\ fn[Len(fn)] \in ExtensionLike

\* ------------------------------------------------- the remote site and files
\* what a file holds, as far as the decoder can tell: a well-formed metadata
\* file listing `names`, bytes buddy rejects, the bytes of another kind of
\* file, or an incomplete or interleaved write
Meta(S) == [kind |-> "meta", names |-> S]
Malformed == [kind |-> "malformed", names |-> {}]
Data == [kind |-> "data", names |-> {}]
Partial == [kind |-> "partial", names |-> {}]

\* a worker that takes every downloaded file for a metadata file
AnyUrlIsMeta(url) == TRUE

\* `downloaded.name != '.DS_Store'`, negated
IsMetaUrl(url) == PathName(LocalPath(url)) = MetaName

RootMeta == <<"http", "://", "h", "/", ".DS_Store">>
SubMeta == <<"http", "://", "h", "/", "d", "/", ".DS_Store">>
RootFile == <<"http", "://", "h", "/", "f", ".txt">>
SubFile == <<"http", "://", "h", "/", "d", "/", "f", ".txt">>
TlsRootMeta == <<"https", "://", "h", "/", ".DS_Store">>

\* the listings the remote site may hold in the metadata file at url; every
\* other url of the site is a plain file or is not there
Listings(url) ==
    CASE url = RootMeta -> { {<<"d">>, <<"f", ".txt">>}, {<<".DS_Store">>, <<"i", ".png">>},
                             {<<"%64">>} }
      [] url = SubMeta -> { {<<"..">>, <<"f", ".txt">>}, {<<"d">>} }
      [] url = TlsRootMeta -> { {<<"c", ".config">>} }
      [] OTHER -> {}

Served == { RootMeta, SubMeta, RootFile, SubFile, TlsRootMeta }

\* the url as the server reads it: percent-escapes decoded
Decoded(url) == [i \in 1..Len(url) |-> unquote(url[i])]

Reply(k, b) == [kind |-> k, body |-> b]

\* every answer the remote site may give to a GET of url: a non-success
\* status, a transport failure before the status line, a body that breaks
\* off while it is streamed, or a complete body
Replies(url) ==
    IF url \notin Served
    THEN { Reply("status", Data) }
    ELSE { Reply("status", Data), Reply("transport", Data), Reply("cut", Data) }
         \cup { Reply("ok", b) :
                  b \in IF IsMetaUrl(url)
                        THEN { Malformed } \cup { Meta(S) : S \in Listings(url) }
                        ELSE { Data } }

\* ---------------------------------------------- the urls of the model
\* Every url the crawl can dequeue: the site has files in its root and in d,
\* so a metadata file that is read lies at most one directory deep and the
\* urls it yields at most two.  The operators above are tabulated over these
\* urls; an action applies the tables.
Schemes == {"http", "https"}
DirNames == {"d", "%64"}
EntryNames == UNION { UNION Listings(u) : u \in Served }
Level0 == { <<>> }
Level1 == { x \o <<n, "/">> : x \in Level0, n \in DirNames }
Level2 == { x \o <<n, "/">> : x \in Level1, n \in DirNames }
Urls ==
    { <<sch, "://", "h", "/">> \o dirs \o name :
        sch \in Schemes,
        dirs \in Level0 \cup Level1 \cup Level2,
        name \in { MetaName, <<"f", ".txt">>, <<"c", ".config">> } }

PathOf == [u \in Urls |-> LocalPath(u)]
IsMeta == [u \in Urls |-> IsMetaUrl(u)]
DecodedOf == [u \in Urls |-> Decoded(u)]
AnswersOf == [u \in Urls |-> Replies(Decoded(u))]

\* ------------------------------------------------------------------- state
VARIABLES
    runPc,        \* where run is: "idle", "join", "wait", "done", "failed"
    rerun,        \* TRUE during and after a second run over the same output
    seeds,        \* the urls argument of run
    override,     \* self.override
    download_queue,   \* the queued urls and None sentinels, oldest first
    unfinished,   \* download_queue._unfinished_tasks
    joinWoken,    \* the waiter of download_queue.join() has been released
    seen_urls,    \* seen_urls
    pc,           \* where each worker is suspended
    cur,          \* each worker's url while it holds one, else None
    io,           \* state of the file object a streaming worker writes to
    fs,           \* the output directory: local path -> contents
    remote,       \* the answers the remote site has given, by decoded url
    putCount,     \* history: items put on the queue in this run
    enqueued,     \* history: the urls put on the queue in this run
    getCount,     \* history: items returned by get() in this run
    doneCount,    \* history: task_done() calls in this run
    bal,          \* history: per worker, get() returns minus task_done() calls
    started,      \* history: per url, times the fetch path was entered
    requested,    \* history: the urls GET was issued for in this run
    spoiled,      \* history: some item of the first run left no usable file
    last          \* history: the worker step taken last and how it ended

vars == << runPc, rerun, seeds, override, download_queue, unfinished, joinWoken,
           seen_urls, pc, cur, io, fs, remote, putCount, enqueued, getCount,
           doneCount, bal, started, requested, spoiled, last >>

Event(w, what, url) == [w |-> w, what |-> what, url |-> url]

Init ==
    /\ runPc = "idle"
    /\ rerun = FALSE
    /\ seeds = <<>>
    /\ override \in BOOLEAN
    /\ download_queue = <<>>
    /\ unfinished = 0
    /\ joinWoken = FALSE
    /\ seen_urls = {}
    /\ pc = [w \in Workers |-> "unborn"]
    /\ cur = [w \in Workers |-> None]
    /\ io = [w \in Workers |-> "none"]
    /\ fs = <<>>
    /\ remote = <<>>
    /\ putCount = 0
    /\ enqueued = {}
    /\ getCount = 0
    /\ doneCount = 0
    /\ bal = [w \in Workers |-> 0]
    /\ started = <<>>
    /\ requested = {}
    /\ spoiled = FALSE
    /\ last = Event(0, "none", None)

\* a worker that never finds a url in seen_urls
NeverSeen(url) == FALSE

\* ------------------------------------------------- decisions of the code
\* `if url in seen_urls`
AlreadySeen(url) == url \in seen_urls

\* a worker that downloads whether or not the file is on disk
AlwaysDownload(p) == TRUE

\* `if not downloaded.exists() or self.override`
NeedsDownload(p) == p \notin DOMAIN fs \/ override

\* task_done() at the end of the loop body instead of in `finally`: the
\* `continue` of a seen url passes it by
DoneCallsUnlessSkipped(what) == IF what = "skip" THEN 0 ELSE 1

\* the `finally: download_queue.task_done()` of the loop body: the number of
\* task_done() calls on the path that ended as `what`
DoneCalls(what) == 1

\* a handler for aiohttp.ClientResponseError alone: any other exception
\* leaves the worker
CatchesStatusOnly(what) == what # "error"

\* `except Exception` around the loop body: whether the path that ended as
\* `what` stays inside the worker
Catches(what) == TRUE

\* a worker that leaves the rejected file where it is
KeepFile(f, p) == f

\* downloaded.unlink(), called while the file is still open for reading: the
\* directory entry goes at once (POSIX)
Unlink(f, p) == [q \in DOMAIN f \ {p} |-> f[q]]

\* the file opened for writing before the status is checked
OpenedBeforeStatus(f, p) == (p :> Partial) @@ f

\* response.raise_for_status() comes before downloaded.open('wb'): the files
\* after a non-success status to the GET for local path p
AfterStatusError(f, p) == f

\* run that does not wait for the queue to drain
JoinReturnsAtOnce == TRUE

\* `await download_queue.join()`: run goes on when its waiter was released
JoinReturns == joinWoken

\* one sentinel too few
OneSentinelShort == NumWorkers - 1

\* `for _ in range(self.num_workers): download_queue.put_nowait(None)`
SentinelCount == NumWorkers

Sentinels == [i \in 1..SentinelCount |-> None]

\* a join() that waits for the next task_done() whatever the counter is
JoinAlwaysBlocks(n) == TRUE

\* `await download_queue.join()` with n unfinished items: join waits only
\* while the counter is above zero
JoinBlocks(n) == n > 0

\* the ways the decoder takes the contents of a file: it yields the entry
\* names, raises buddy.BuddyError, or raises another exception on bytes
\* that break off
Decode(c) ==
    CASE c.kind = "meta" -> {"expanded"}
      [] c.kind = "partial" -> {"malformed", "error"}
      [] OTHER -> {"malformed"}

\* the orders in which `for filename in found_files` may visit a set
Orders(S) ==
    { o \in [1..Cardinality(S) -> S] :
        \A i, j \in 1..Cardinality(S) : o[i] = o[j] => i = j }

\* `if` in place of `elif` at line 104: both checks are made for every name
EnqueuedByBothChecks(url, fn) ==
    (IF DOWNLOAD_RE(fn) THEN << urljoin(url, fn) >> ELSE <<>>)
    \o (IF ~EXTENSION_RE(fn) THEN << normalize_ds_store_url(urljoin(url, fn)) >> ELSE <<>>)

\* what one entry name puts on the queue
Enqueued(url, fn) ==
    LET file_url == urljoin(url, fn)
    IN IF DOWNLOAD_RE(fn) THEN << file_url >>
       ELSE IF ~EXTENSION_RE(fn) THEN << normalize_ds_store_url(file_url) >>
       ELSE <<>>

PutsOf == [u \in Urls |-> [fn \in EntryNames |-> Enqueued(u, fn)]]

\* `url = normalize_ds_store_url(url)` for each url of a seed list
NormalizedSeeds ==
    [s \in SeedLists |-> [i \in 1..Len(s) |-> normalize_ds_store_url(s[i])]]

\* the puts of `for filename in found_files`, visiting the names in `order`
RECURSIVE Expand(_, _)
Expand(url, order) ==
    IF order = <<>> THEN <<>>
    ELSE PutsOf[url][Head(order)] \o Expand(url, Tail(order))

\* the workers that have local path p open for writing
Writers(p) == { w \in Workers : pc[w] = "stream" /\ PathOf[cur[w]] = p }

\* ----------------------------------------------------------------- worker
\* The end of one pass of the loop body of worker w for item u, which ended
\* as `what`: the puts of the expansion, then the finally block, then back to
\* `await download_queue.get()`.  got is 1 when the item was dequeued in
\* this step.
Finish(w, u, what, got, q, f, puts, ios) ==
    LET n == unfinished + Len(puts)
        calls == DoneCalls(what)
        crashed == calls > n \/ ~Catches(what)
    IN /\ download_queue' = q \o puts
       /\ fs' = f
       /\ unfinished' = IF calls > n THEN n ELSE n - calls
       /\ joinWoken' = (joinWoken \/ (runPc = "join" /\ calls > 0 /\ n - calls = 0))
       /\ pc' = [pc EXCEPT ![w] = IF crashed THEN "crashed"
                                  ELSE IF what = "sentinel" THEN "exited"
                                  ELSE "get"]
       /\ cur' = [cur EXCEPT ![w] = None]
       /\ io' = [ios EXCEPT ![w] = "none"]
       /\ putCount' = putCount + Len(puts)
       /\ enqueued' = enqueued \cup { puts[i] : i \in 1..Len(puts) }
       /\ getCount' = getCount + got
       /\ doneCount' = doneCount + calls
       /\ bal' = [bal EXCEPT ![w] = @ + got - calls]
       /\ spoiled' = (spoiled \/ (~rerun /\ what \in {"status", "error", "malformed"}))
       /\ last' = Event(w, what, u)

\* lines 86-111: the file at the local path of u is there (downloaded now or
\* found on disk); decode it if it is a metadata file and enqueue its entries
Process(w, u, got, q, f) ==
    LET p == PathOf[u]
    IN IF ~IsMeta[u]
       THEN Finish(w, u, "notmeta", got, q, f, <<>>, io)
       ELSE IF p \notin DOMAIN f
       THEN Finish(w, u, "error", got, q, f, <<>>, io)
       ELSE \E res \in Decode(f[p]) :
              CASE res = "expanded" ->
                     \E order \in Orders(f[p].names) :
                        Finish(w, u, "expanded", got, q, f, Expand(u, order), io)
                [] res = "malformed" ->
                     Finish(w, u, "malformed", got, q, Unlink(f, p), <<>>,
                            [x \in Workers |->
                               IF x \in Writers(p) THEN "orphan" ELSE io[x]])
                [] OTHER ->
                     Finish(w, u, "error", got, q, f, <<>>, io)

\* lines 58-69: get() returns an item; the sentinel ends the worker, a seen
\* url is skipped, a new url is added to seen_urls and either requested or,
\* when its file is on disk already, processed at once
Dequeue(w) ==
    /\ pc[w] = "get"
    /\ download_queue # <<>>
    /\ LET u == Head(download_queue)
           q == Tail(download_queue)
       IN IF u = None
          THEN /\ Finish(w, u, "sentinel", 1, q, fs, <<>>, io)
               /\ UNCHANGED << seen_urls, started, requested >>
          ELSE IF AlreadySeen(u)
          THEN /\ Finish(w, u, "skip", 1, q, fs, <<>>, io)
               /\ UNCHANGED << seen_urls, started, requested >>
          ELSE /\ seen_urls' = seen_urls \cup {u}
               /\ started' = IF u \in DOMAIN started
                             THEN [started EXCEPT ![u] = @ + 1]
                             ELSE (u :> 1) @@ started
               /\ IF NeedsDownload(PathOf[u])
                  THEN /\ requested' = requested \cup {u}
                       /\ download_queue' = q
                       /\ pc' = [pc EXCEPT ![w] = "request"]
                       /\ cur' = [cur EXCEPT ![w] = u]
                       /\ getCount' = getCount + 1
                       /\ bal' = [bal EXCEPT ![w] = @ + 1]
                       /\ last' = Event(w, "request", u)
                       /\ UNCHANGED << unfinished, joinWoken, io, fs, putCount,
                                       enqueued, doneCount, spoiled >>
                  ELSE /\ Process(w, u, 1, q, fs)
                       /\ UNCHANGED requested
    /\ UNCHANGED << runPc, rerun, seeds, override, remote >>

\* lines 72-77: the answer to the GET arrives: a non-success status and a
\* transport failure end the item, otherwise the file is opened for writing
Respond(w) ==
    /\ pc[w] = "request"
    /\ LET u == cur[w]
           p == PathOf[u]
           v == DecodedOf[u]
       IN \E r \in (IF v \in DOMAIN remote THEN {remote[v]} ELSE AnswersOf[u]) :
            /\ remote' = (v :> r) @@ remote
            /\ CASE r.kind = "status" ->
                      Finish(w, u, "status", 0, download_queue,
                             AfterStatusError(fs, p), <<>>, io)
                 [] r.kind = "transport" ->
                      Finish(w, u, "error", 0, download_queue, fs, <<>>, io)
                 [] OTHER ->
                      /\ fs' = (p :> Partial) @@ fs
                      /\ io' = [x \in Workers |->
                                  IF x = w
                                  THEN (IF \E y \in Writers(p) : io[y] # "orphan"
                                        THEN "dirty" ELSE "clean")
                                  ELSE IF x \in Writers(p) /\ io[x] # "orphan"
                                  THEN "dirty" ELSE io[x]]
                      /\ pc' = [pc EXCEPT ![w] = "stream"]
                      /\ last' = Event(w, "open", u)
                      /\ UNCHANGED << download_queue, unfinished, joinWoken, cur,
                                      putCount, enqueued, getCount, doneCount, bal,
                                      spoiled >>
    /\ UNCHANGED << runPc, rerun, seeds, override, seen_urls, started, requested >>

\* lines 78-81 and on: the body has been streamed into the file, or it broke
\* off; a complete file is processed at once
StreamEnd(w) ==
    /\ pc[w] = "stream"
    /\ LET u == cur[w]
           p == PathOf[u]
           r == remote[DecodedOf[u]]
       IN IF r.kind = "cut"
          THEN Finish(w, u, "error", 0, download_queue,
                      IF io[w] = "orphan" THEN fs ELSE (p :> Partial) @@ fs,
                      <<>>, io)
          ELSE \E c \in (IF io[w] = "dirty" THEN {r.body, Partial} ELSE {r.body}) :
                 Process(w, u, 0, download_queue,
                         IF io[w] = "orphan" THEN fs ELSE (p :> c) @@ fs)
    /\ UNCHANGED << runPc, rerun, seeds, override, seen_urls, started, requested,
                    remote >>

\* -------------------------------------------------------------------- run
\* lines 118-127 (and 128-129 when join() does not wait): the seeds are
\* normalized and queued, the workers created, and run waits in join()
Begin(s, again) ==
    LET q == NormalizedSeeds[s]
        blocks == JoinBlocks(Len(q))
        puts == IF blocks THEN q ELSE q \o Sentinels
    IN /\ seeds' = s
       /\ rerun' = again
       /\ seen_urls' = {}
       /\ pc' = [w \in Workers |-> "get"]
       /\ cur' = [w \in Workers |-> None]
       /\ io' = [w \in Workers |-> "none"]
       /\ joinWoken' = FALSE
       /\ download_queue' = puts
       /\ unfinished' = Len(puts)
       /\ putCount' = Len(puts)
       /\ enqueued' = { q[i] : i \in 1..Len(q) }
       /\ runPc' = IF blocks THEN "join" ELSE "wait"
       /\ getCount' = 0
       /\ doneCount' = 0
       /\ bal' = [w \in Workers |-> 0]
       /\ started' = <<>>
       /\ requested' = {}
       /\ last' = Event(0, "run", None)
       /\ UNCHANGED << override, fs, remote, spoiled >>

Run ==
    /\ runPc = "idle"
    /\ \E s \in SeedLists : Begin(s, FALSE)

\* a second run with the same seeds over the output directory the first left
RunAgain ==
    /\ runPc = "done"
    /\ ~rerun
    /\ Begin(seeds, TRUE)

\* lines 127-129: join() returns and one sentinel per worker is queued
JoinReturn ==
    /\ runPc = "join"
    /\ JoinReturns
    /\ download_queue' = download_queue \o Sentinels
    /\ unfinished' = unfinished + SentinelCount
    /\ putCount' = putCount + SentinelCount
    /\ runPc' = "wait"
    /\ last' = Event(0, "join", None)
    /\ UNCHANGED << rerun, seeds, override, joinWoken, seen_urls, pc, cur, io, fs,
                    remote, enqueued, getCount, doneCount, bal, started, requested,
                    spoiled >>

\* lines 130-131: every worker task has ended and run returns
RunReturn ==
    /\ runPc = "wait"
    /\ \A w \in Workers : pc[w] = "exited"
    /\ runPc' = "done"
    /\ last' = Event(0, "return", None)
    /\ UNCHANGED << rerun, seeds, override, download_queue, unfinished, joinWoken,
                    seen_urls, pc, cur, io, fs, remote, putCount, enqueued, getCount,
                    doneCount, bal, started, requested, spoiled >>

\* one run of the crawl
Next ==
    \/ Run
    \/ JoinReturn
    \/ RunReturn
    \/ \E w \in Workers : Dequeue(w)
    \/ \E w \in Workers : Respond(w)
    \/ \E w \in Workers : StreamEnd(w)

Spec == Init /\ [][Next]_vars

\* the crawl run twice
NextRerun == Next \/ RunAgain

SpecRerun == Init /\ [][NextRerun]_vars

\* the event loop runs a task that is ready, every GET is answered and every
\* body ends or breaks off: the crawl does not stop while a step is possible.
\* Fairness to each worker and to run apart implies this condition.
Fairness == WF_vars(Next)

FairSpec == Spec /\ Fairness

\* ----------------------------------------------- the normalizer on its own
\* lines 120-122 for one address, and the normalizer applied once more to
\* its own result: download_queue holds the results
InitNormalize ==
    /\ runPc = "idle"
    /\ rerun = FALSE
    /\ seeds \in { << x >> : x \in Addresses }
    /\ override = FALSE
    /\ download_queue = <<>>
    /\ unfinished = 0
    /\ joinWoken = FALSE
    /\ seen_urls = {}
    /\ pc = [w \in Workers |-> "unborn"]
    /\ cur = [w \in Workers |-> None]
    /\ io = [w \in Workers |-> "none"]
    /\ fs = <<>>
    /\ remote = <<>>
    /\ putCount = 0
    /\ enqueued = {}
    /\ getCount = 0
    /\ doneCount = 0
    /\ bal = [w \in Workers |-> 0]
    /\ started = <<>>
    /\ requested = {}
    /\ spoiled = FALSE
    /\ last = Event(0, "none", None)

Normalize ==
    /\ runPc = "idle"
    /\ Len(download_queue) < 2
    /\ download_queue' =
         Append(download_queue,
                normalize_ds_store_url(IF download_queue = <<>> THEN seeds[1]
                                       ELSE download_queue[Len(download_queue)]))
    /\ UNCHANGED << runPc, rerun, seeds, override, unfinished, joinWoken, seen_urls,
                    pc, cur, io, fs, remote, putCount, enqueued, getCount, doneCount,
                    bal, started, requested, spoiled, last >>

NextNormalize == Normalize

SpecNormalize == InitNormalize /\ [][NextNormalize]_vars

\* ------------------------------------------------------------ properties
Busy(w) == pc[w] \in {"request", "stream"}

BusyWorkers == { w \in Workers : Busy(w) }

QueuedUrls == { download_queue[i] : i \in 1..Len(download_queue) } \ {None}

\* the urls put on the queue so far in this run: each is still queued or was
\* dequeued, and a dequeued url is in seen_urls whether claimed or skipped
EverEnqueued == seen_urls \cup QueuedUrls

\* the items put on the queue by the step
NewPuts ==
    SubSeq(download_queue', Len(download_queue') - (putCount' - putCount) + 1,
           Len(download_queue'))

\* C1: join() returns only when no url is queued and no worker holds one, the
\* urls the workers enqueued while expanding included; at that moment as
\* many items were marked done as were ever enqueued, and no url is queued or
\* held afterwards.
DrainWaitReturnsWhenDrained ==
    /\ [][ (runPc = "join" /\ runPc' # "join") =>
              /\ download_queue = <<>>
              /\ BusyWorkers = {}
              /\ doneCount = putCount ]_vars
    /\ [](runPc \in {"wait", "done"} => QueuedUrls = {} /\ BusyWorkers = {})

\* join() has returned in a run whose workers enqueued urls after it began
DrainWaitReturnedAfterExpansion ==
    /\ runPc = "wait"
    /\ putCount - SentinelCount > Len(seeds)
    /\ doneCount >= putCount - SentinelCount

\* C2: the fetch path (existence check, then GET) is entered at most once per
\* url in a run, however often the url is enqueued; at every suspension
\* point a worker that holds a url has already inserted it in seen_urls.
FetcherStartedOncePerUrl ==
    /\ \A u \in DOMAIN started : started[u] = 1
    /\ DOMAIN started = seen_urls
    /\ \A w \in BusyWorkers : cur[w] \in seen_urls

\* a url enqueued a second time was dequeued and skipped, fetched once
DuplicateSkipped ==
    /\ last.what = "skip"
    /\ last.url \in DOMAIN started
    /\ started[last.url] = 1

\* C3: under fair scheduling, with every GET answered and every body ending,
\* the run returns with every worker exited, also when two metadata files
\* list each other.
RunTerminates == <>(runPc = "done" /\ \A w \in Workers : pc[w] = "exited")

\* the run has returned on a site where the root lists d and d lists ".."
CycleCrawledToEnd ==
    /\ runPc = "done"
    /\ RootMeta \in DOMAIN remote /\ SubMeta \in DOMAIN remote
    /\ remote[RootMeta].kind = "ok" /\ <<"d">> \in remote[RootMeta].body.names
    /\ remote[SubMeta].kind = "ok" /\ <<"..">> \in remote[SubMeta].body.names
    /\ last.what = "return"

\* C4: every item a worker dequeues is marked done exactly once by that
\* worker on every path, and every item leaves the queue to one worker only:
\* a worker's get() returns exceed its task_done() calls by one while it
\* holds an item and by nothing otherwise.
DequeuedMarkedDoneOnce ==
    /\ \A w \in Workers : bal[w] = IF Busy(w) THEN 1 ELSE 0
    /\ getCount + Len(download_queue) = putCount
    /\ doneCount + Cardinality(BusyWorkers) = getCount

\* a run that met failures has returned: urls and sentinels all marked done
FailuresAndSentinelsMarkedDone ==
    /\ runPc = "done"
    /\ spoiled
    /\ doneCount = putCount
    /\ putCount > SentinelCount + 1

\* C5: no failure of an item ends a worker: a worker leaves its loop only by
\* dequeuing the sentinel, so every worker of the pool is alive while run
\* waits in join().
WorkersLeaveOnlyBySentinel ==
    /\ [](runPc = "join" => \A w \in Workers : pc[w] \in {"get", "request", "stream"})
    /\ [][ \A w \in Workers :
             (pc[w] \in {"get", "request", "stream"} /\ pc'[w] \notin {"get", "request", "stream"})
             => /\ pc[w] = "get"
                /\ pc'[w] = "exited"
                /\ download_queue # <<>> /\ Head(download_queue) = None ]_vars

\* a transport failure has ended an item and its worker waits for the next
WorkerSurvivedFailure ==
    /\ runPc = "join"
    /\ last.what = "error"
    /\ pc[last.w] = "get"

\* C6 as stated: only a url that was not enqueued before in the run is put
\* on the queue, by run for a seed and by a worker for an entry, so no url
\* is enqueued more than once.
OnlyNewUrlsEnqueued ==
    [][ \A i \in 1..Len(NewPuts) :
          NewPuts[i] # None =>
            /\ NewPuts[i] \notin EverEnqueued
            /\ \A j \in 1..Len(NewPuts) : NewPuts[j] = NewPuts[i] => j = i ]_vars

\* C6, amended: urls are enqueued without a claim and claimed when they are
\* dequeued: seen_urls changes only when a worker dequeues a url that is not
\* in it, by that url; a dequeued url that is in it is dropped with nothing
\* written or enqueued; no two workers hold the same url.
UrlsClaimedAtDequeue ==
    /\ [](\A w1, w2 \in BusyWorkers : cur[w1] = cur[w2] => w1 = w2)
    /\ [][ /\ seen_urls' # seen_urls =>
                /\ getCount' = getCount + 1
                /\ Head(download_queue) \notin seen_urls
                /\ seen_urls' = seen_urls \cup {Head(download_queue)}
                /\ last'.url = Head(download_queue)
                /\ pc[last'.w] = "get"
           /\ (getCount' = getCount + 1 /\ Head(download_queue) \in seen_urls) =>
                /\ last'.what = "skip"
                /\ fs' = fs
                /\ download_queue' = Tail(download_queue)
                /\ seen_urls' = seen_urls ]_vars

\* a worker has enqueued a url that is in seen_urls already
ClaimedUrlEnqueuedAgain ==
    /\ last.what = "expanded"
    /\ QueuedUrls \cap seen_urls # {}

\* C7 as stated: with override false the second run issues no GET, whatever
\* the remote site answered in the first run.
SecondRunRequestsNothing == (rerun /\ ~override) => requested = {}

\* C7, amended: with override false the second run issues a GET only for a
\* url whose local file is missing, and none at all when no item of the
\* first run ended in a failure (a non-success status, a transport or other
\* error, a metadata file the decoder rejected).
SecondRunRequestsOnlyMissingFiles ==
    /\ []((rerun /\ ~override /\ ~spoiled) => requested = {})
    /\ [][ (rerun /\ rerun' /\ ~override /\ requested' # requested) =>
              \A u \in requested' \ requested : PathOf[u] \notin DOMAIN fs ]_vars

\* a second run over a fully mirrored site has returned without a GET
SecondRunWithoutRequests ==
    /\ rerun /\ ~override /\ ~spoiled
    /\ runPc = "done"
    /\ Cardinality(seen_urls) >= 4
    /\ requested = {}

\* C8 as stated: no two workers have the same local path open for writing at
\* the same time.
NoTwoWritersOnOnePath ==
    \A w1, w2 \in Workers :
        (pc[w1] = "stream" /\ pc[w2] = "stream" /\ PathOf[cur[w1]] = PathOf[cur[w2]])
        => w1 = w2

\* C9: when the decoder rejects the file of a metadata item, the file is
\* deleted, nothing is enqueued, the item is marked done and the worker
\* goes on to the next item.
MalformedFileDeleted ==
    [][ last'.what = "malformed" =>
          /\ PathOf[last'.url] \notin DOMAIN fs'
          /\ putCount' = putCount
          /\ \/ download_queue' = download_queue
             \/ download_queue # <<>> /\ download_queue' = Tail(download_queue)
          /\ doneCount' = doneCount + 1
          /\ unfinished' = unfinished - 1
          /\ pc'[last'.w] = "get" ]_vars

\* a rejected metadata file is gone and its worker waits for the next item
MalformedFileGone ==
    /\ last.what = "malformed"
    /\ DecodedOf[last.url] \in DOMAIN remote
    /\ remote[DecodedOf[last.url]].body = Malformed
    /\ PathOf[last.url] \notin DOMAIN fs
    /\ pc[last.w] = "get"

\* C10: when the GET returns a non-success status nothing is written to the
\* local path, the item is neither decoded nor expanded, it is marked done
\* and the worker goes on to the next item.
StatusErrorAbandonsItem ==
    [][ last'.what = "status" =>
          /\ pc[last'.w] = "request"
          /\ cur[last'.w] = last'.url
          /\ fs' = fs
          /\ download_queue' = download_queue
          /\ putCount' = putCount
          /\ doneCount' = doneCount + 1
          /\ unfinished' = unfinished - 1
          /\ pc'[last'.w] = "get" ]_vars

\* a GET of a metadata url was refused and no file is at its local path
StatusErrorLeftNoFile ==
    /\ last.what = "status"
    /\ IsMeta[last.url]
    /\ PathOf[last.url] \notin DOMAIN fs
    /\ pc[last.w] = "get"

\* C11 as stated: a transport failure of the GET, before the status line or
\* while the body is streamed to disk, leaves no file at the local path of
\* the item, complete or partial; the item is marked done and the worker goes
\* on to the next item.
TransportFailureLeavesNoFile ==
    [][ ( /\ last'.what = "error"
          /\ pc[last'.w] \in {"request", "stream"}
          /\ remote'[DecodedOf[last'.url]].kind \in {"transport", "cut"} )
        => /\ PathOf[last'.url] \notin DOMAIN fs'
           /\ doneCount' = doneCount + 1
           /\ pc'[last'.w] = "get" ]_vars

\* the step is the dequeue of a url that is not in seen_urls and whose local
\* file is on disk, with override false
ClaimsExistingFile ==
    /\ ~override
    /\ download_queue # <<>>
    /\ getCount' = getCount + 1
    /\ Head(download_queue) # None
    /\ Head(download_queue) \notin seen_urls
    /\ PathOf[Head(download_queue)] \in DOMAIN fs

\* C12 as stated: when the local path of a claimed url exists and override is
\* false, no GET is issued, the files are as they were, and a file named
\* .DS_Store is decoded.
ExistingFileLeftAsItWas ==
    [][ ClaimsExistingFile =>
          /\ requested' = requested
          /\ fs' = fs
          /\ PathName(PathOf[Head(download_queue)]) = MetaName
             => last'.what \in {"expanded", "malformed", "error"} ]_vars

\* C12, amended: when the local path of a claimed url exists and override is
\* false, no GET is issued and nothing is written to any file; the file on
\* disk is taken as the downloaded one: if it is not named .DS_Store the item
\* ends there, if it is and it decodes, its entries are enqueued, and if the
\* decoder rejects it, it is deleted (and no other file is).
ExistingFileTakenAsDownloaded ==
    [][ ClaimsExistingFile =>
          LET u == Head(download_queue)
              p == PathOf[u]
          IN /\ requested' = requested
             /\ last'.url = u
             /\ pc'[last'.w] = "get"
             /\ \A q \in DOMAIN fs' : q \in DOMAIN fs /\ fs'[q] = fs[q]
             /\ \A q \in DOMAIN fs \ DOMAIN fs' : q = p /\ last'.what = "malformed"
             /\ IF PathName(p) # MetaName
                THEN last'.what = "notmeta" /\ putCount' = putCount /\ fs' = fs
                ELSE /\ last'.what \in {"expanded", "malformed", "error"}
                     /\ fs[p].kind = "meta" =>
                          /\ last'.what = "expanded"
                          /\ putCount' - putCount =
                               Cardinality({ fn \in fs[p].names :
                                               DOWNLOAD_RE(fn) \/ ~EXTENSION_RE(fn) }) ]_vars

\* a metadata file found on disk was expanded without a GET for its url
ExistingMetadataExpanded ==
    /\ ~override
    /\ last.what = "expanded"
    /\ last.url \notin requested
    /\ PathOf[last.url] \in DOMAIN fs
    /\ putCount > Len(seeds)

\* the sentinels that are queued, and the workers that have left their loop
QueuedSentinels == { i \in 1..Len(download_queue) : download_queue[i] = None }

Exited == { w \in Workers : pc[w] = "exited" }

\* C13: sentinels are enqueued only when join() has returned, one per worker
\* and all in one step; from then on no url is enqueued; a worker leaves by
\* taking one sentinel off the queue and takes nothing after it, so the
\* sentinels still queued and the workers that have left add up to the pool;
\* when run returns the queue is empty and every worker has left.
OneSentinelPerWorker ==
    /\ [](runPc \in {"idle", "join"} => QueuedSentinels = {} /\ Exited = {})
    /\ [](runPc \in {"wait", "done"} =>
            /\ Cardinality(QueuedSentinels) + Cardinality(Exited) = Cardinality(Workers)
            /\ QueuedUrls = {})
    /\ [](runPc = "done" => download_queue = <<>> /\ Exited = Workers)
    /\ [][ /\ runPc \in {"wait", "done"} => putCount' = putCount
           /\ (\E i \in 1..Len(NewPuts) : NewPuts[i] = None) =>
                /\ runPc # "wait" /\ runPc' = "wait"
                /\ Len(NewPuts) = Cardinality(Workers)
                /\ \A i \in 1..Len(NewPuts) : NewPuts[i] = None
                /\ download_queue = <<>> /\ BusyWorkers = {}
           /\ \A w \in Workers :
                /\ (pc'[w] = "exited" /\ pc[w] # "exited") =>
                     /\ download_queue # <<>> /\ Head(download_queue) = None
                     /\ download_queue' = Tail(download_queue)
                     /\ getCount' = getCount + 1
                /\ pc[w] = "exited" => pc'[w] = "exited" ]_vars

\* the run has returned after a crawl of several urls: the queue is empty,
\* every worker has left and as many items were taken as were put
EveryWorkerTookItsSentinel ==
    /\ runPc = "done"
    /\ Exited = Workers
    /\ download_queue = <<>>
    /\ getCount = putCount
    /\ Cardinality(seen_urls) >= 2

\* C14: a run with nothing to process (an empty seed list; seen_urls is empty
\* at the start of every run, so no seed is claimed beforehand) does not wait
\* in join(): the sentinels are queued at once, one per worker, no url is
\* claimed or requested, and under fair scheduling every worker leaves and
\* run returns.
EmptyRunReturns ==
    /\ [][ (runPc = "idle" /\ runPc' # "idle") =>
             /\ seen_urls' = {}
             /\ seeds' = <<>> =>
                  /\ runPc' = "wait"
                  /\ download_queue' = [i \in 1..Cardinality(Workers) |-> None] ]_vars
    /\ [](seeds = <<>> => seen_urls = {} /\ requested = {} /\ runPc # "join")
    /\ (runPc # "idle" /\ seeds = <<>>) ~> (runPc = "done" /\ Exited = Workers)

\* a run without seeds has returned
EmptyRunReturned ==
    /\ runPc = "done"
    /\ seeds = <<>>
    /\ Exited = Workers
    /\ getCount = Cardinality(Workers)
    /\ last.what = "return"

\* an address that has a scheme separator and ends with "/.DS_Store"
Canonical(url) ==
    /\ Positions(url, "://") # {}
    /\ EndsWith(Chars(url), <<"/", ".DS_Store">>)

\* C15 as stated: for every address the result of the normalizer has a
\* scheme separator and ends with "/.DS_Store", the normalizer applied to
\* its result returns it unchanged, and an address that has a scheme
\* separator and ends with "/.DS_Store" is returned unchanged.
NormalizeCanonicalAndIdempotent ==
    /\ \A i \in 1..Len(download_queue) : Canonical(download_queue[i])
    /\ Len(download_queue) = 2 => download_queue[2] = download_queue[1]
    /\ (Len(download_queue) >= 1 /\ Canonical(seeds[1])) => download_queue[1] = seeds[1]

\* C16: the entries of a decoded metadata file put at most one url each on
\* the queue: a name DOWNLOAD_RE matches puts its resolved url as it is, also
\* when the name has no extension (".DS_Store"); a name DOWNLOAD_RE does not
\* match and that has no extension puts the normalized url of its resolved
\* url; any other name puts nothing.
EntryEnqueuedAtMostOnce ==
    [][ last'.what = "expanded" =>
          LET u == last'.url
              names == fs'[PathOf[u]].names
              kept == { fn \in names : DOWNLOAD_RE(fn) \/ ~EXTENSION_RE(fn) }
          IN /\ Len(NewPuts) = Cardinality(kept)
             /\ \E order \in Orders(kept) :
                  \A i \in 1..Len(NewPuts) :
                     NewPuts[i] = IF DOWNLOAD_RE(order[i])
                                  THEN urljoin(u, order[i])
                                  ELSE normalize_ds_store_url(urljoin(u, order[i])) ]_vars

\* a metadata file listing "c.config", which DOWNLOAD_RE matches and
\* EXTENSION_RE does not, was expanded: its resolved url was enqueued, and
\* not the metadata url of a directory of that name
BothChecksEntryEnqueuedOnce ==
    /\ last.what = "expanded"
    /\ last.url = TlsRootMeta
    /\ fs[PathOf[TlsRootMeta]].names = { <<"c", ".config">> }
    /\ download_queue # <<>>
    /\ download_queue[Len(download_queue)] = <<"https", "://", "h", "/", "c", ".config">>

\* C17: an item whose local file is not named ".DS_Store" is not decoded
\* (its file is neither expanded nor rejected and deleted) and puts nothing
\* on the queue; a worker puts urls on the queue only in the step that
\* expands a file named ".DS_Store", for a url that is in seen_urls and that
\* this worker holds or has dequeued in that step.
OnlyMetadataItemsExpand ==
    [][ (last'.w \in Workers /\ last'.url # None) =>
          LET w == last'.w
              u == last'.url
              name == PathName(LocalPath(u))
          IN /\ last'.what \in {"expanded", "malformed"} => name = MetaName
             /\ name # MetaName =>
                  /\ putCount' = putCount
                  /\ last'.what \in {"skip", "request", "open", "status", "error", "notmeta"}
                  /\ \A q \in DOMAIN fs : q \in DOMAIN fs'
             /\ putCount' > putCount =>
                  /\ last'.what = "expanded"
                  /\ name = MetaName
                  /\ u \in seen_urls'
                  /\ \/ pc[w] = "stream" /\ cur[w] = u
                     \/ /\ pc[w] = "get"
                        /\ download_queue # <<>>
                        /\ Head(download_queue) = u
                        /\ u \notin seen_urls ]_vars

\* a plain file was downloaded whole and its item ended with nothing enqueued
PlainFileNotDecoded ==
    /\ last.what = "notmeta"
    /\ last.url = RootFile
    /\ PathOf[RootFile] \in DOMAIN fs
    /\ fs[PathOf[RootFile]] = Data
    /\ RootFile \in requested
    /\ RootFile \notin QueuedUrls

\* C18: between any two steps the counter of unfinished items is the number
\* of items in the queue plus the number of workers that hold an item they
\* have not marked done; it is never negative, and task_done() was called
\* at most as often as items were put.
OutstandingCounterExact ==
    /\ unfinished = Len(download_queue) + Cardinality(BusyWorkers)
    /\ unfinished >= 0
    /\ unfinished = putCount - doneCount
    /\ doneCount <= putCount
    /\ \A w \in Workers : pc[w] # "crashed"

\* an item is queued while a worker holds another and two were marked done
CounterCoversQueuedAndHeld ==
    /\ runPc = "join"
    /\ Len(download_queue) >= 1
    /\ Cardinality(BusyWorkers) >= 1
    /\ doneCount >= 2
    /\ unfinished >= 3

\* C19: when run has returned, every url that was put on the queue in the
\* run, seed or entry, is in seen_urls and entered the fetch path exactly
\* once, the queue is empty and no worker holds an item; at every moment of
\* the run a url that was put is still queued or is in seen_urls, and
\* seen_urls never loses a url.
NoEnqueuedUrlLost ==
    /\ [](runPc = "done" =>
            /\ enqueued \subseteq seen_urls
            /\ \A u \in enqueued : u \in DOMAIN started /\ started[u] = 1
            /\ download_queue = <<>>
            /\ BusyWorkers = {}
            /\ \A w \in Workers : cur[w] = None)
    /\ [](enqueued = seen_urls \cup QueuedUrls)
    /\ [][seen_urls \subseteq seen_urls']_vars

\* run has returned after a crawl in which a url was enqueued more than once
\* and entries were discovered: all of them are in seen_urls
AllEnqueuedUrlsProcessed ==
    /\ runPc = "done"
    /\ enqueued = seen_urls
    /\ Cardinality(enqueued) > Len(seeds)
    /\ putCount - SentinelCount > Cardinality(enqueued)
    /\ requested # {}

\* C20 as stated: no worker reads (decodes) or deletes the file at a local
\* path while another worker has that path open for writing and is still
\* streaming a body into it.
NoDecodeWhileAnotherStreams ==
    [][ ( /\ last'.w \in Workers
          /\ last'.url # None
          /\ PathName(PathOf[last'.url]) = MetaName
          /\ \/ last'.what \in {"expanded", "malformed"}
             \/ PathOf[last'.url] \in DOMAIN fs /\ PathOf[last'.url] \notin DOMAIN fs' )
        => Writers(PathOf[last'.url]) \subseteq {last'.w} ]_vars

====
